---- MODULE Spec2Model ----
(***************************************************************************)
(* Model of the WAV codec of src/src/lib.rs: write (Header, BitDepth ->    *)
(* RIFF container) and read (RIFF container -> Header, BitDepth).          *)
(*                                                                         *)
(* The riff crate is an external collaborator.  A container is modelled by *)
(* what riff hands to and takes from lib.rs: an outer id, a form type and  *)
(* the ordered list of (tag, payload) sub-chunks.  Bytes are 0..255,       *)
(* samples are integers of the width of their Rust type.                   *)
(***************************************************************************)
EXTENDS Integers, Sequences, FiniteSets, TLC

VARIABLES
    op,          \* the call that produced the current state
    header,      \* write: the Header argument
    track,       \* write: the BitDepth argument
    sinkBefore,  \* write: what the writer held when write was called
    sink,        \* write: what the writer holds when write has returned
    wres,        \* write: "none", "ok" or the error message
    source,      \* read: the container behind the reader
    rres,        \* read: the io::Result<(Header, BitDepth)>
    log          \* read: the calls made on the riff collaborator, in order

vars == <<op, header, track, sinkBefore, sink, wres, source, rres, log>>

(***************************************************************************)
(* Bounds of the model.                                                    *)
(***************************************************************************)
MaxLen == 4        \* longest data payload, in bytes
MaxSamples == 2    \* longest sample buffer handed to write
MaxChunks == 4     \* most sub-chunks in a container of mixed chunks

(***************************************************************************)
(* Integer helpers: little-endian bytes of fixed-width integers.           *)
(***************************************************************************)
\* u16::to_le_bytes / i16::to_le_bytes (two's complement: % is non-negative)
to_le_bytes16(s) == << s % 256, (s \div 256) % 256 >>

\* i32::to_le_bytes / u32::to_le_bytes
to_le_bytes32(s) ==
    << s % 256, (s \div 256) % 256, (s \div 65536) % 256, (s \div 16777216) % 256 >>

\* i16::from_le_bytes
i16_from_le_bytes(b) ==
    LET u == b[1] + 256 * b[2]
    IN  IF u >= 32768 THEN u - 65536 ELSE u

\* i32::from_le_bytes; the top byte carries the sign
i32_from_le_bytes(b) ==
    b[1] + 256 * b[2] + 65536 * b[3]
        + 16777216 * (IF b[4] >= 128 THEN b[4] - 256 ELSE b[4])

u16_from_le_bytes(b) == b[1] + 256 * b[2]

u32_from_le_bytes(b) == b[1] + 256 * b[2] + 65536 * b[3] + 16777216 * b[4]

\* slice::chunks_exact(n): the full groups of n, the remainder is left out
RECURSIVE chunks_exact(_, _)
chunks_exact(bytes, n) ==
    IF Len(bytes) < n THEN << >>
    ELSE << SubSeq(bytes, 1, n) >> \o chunks_exact(SubSeq(bytes, n + 1, Len(bytes)), n)

\* iter.flat_map(f).collect(): the concatenation of f over the sequence
RECURSIVE flatten(_)
flatten(ss) ==
    IF ss = << >> THEN << >> ELSE Head(ss) \o flatten(Tail(ss))

(***************************************************************************)
(* Header (header.rs) and the tuple iterators (tuple_iterator.rs).         *)
(***************************************************************************)
\* impl From<Header> for [u8; 16]
HeaderInto(h) ==
    to_le_bytes16(h.audio_format) \o to_le_bytes16(h.channel_count)
        \o to_le_bytes32(h.sampling_rate) \o to_le_bytes32(h.bytes_per_second)
        \o to_le_bytes16(h.block_align) \o to_le_bytes16(h.bits_per_sample)

\* impl TryFrom<&[u8]> for Header: << >> is the Err, << h >> the Ok
HeaderTryFrom(b) ==
    IF Len(b) < 16 THEN << >>
    ELSE << [ audio_format     |-> u16_from_le_bytes(SubSeq(b, 1, 2)),
              channel_count    |-> u16_from_le_bytes(SubSeq(b, 3, 4)),
              sampling_rate    |-> u32_from_le_bytes(SubSeq(b, 5, 8)),
              bytes_per_second |-> u32_from_le_bytes(SubSeq(b, 9, 12)),
              block_align      |-> u16_from_le_bytes(SubSeq(b, 13, 14)),
              bits_per_sample  |-> u16_from_le_bytes(SubSeq(b, 15, 16)) ] >>

PairIter(p) == << p[1], p[2] >>

TripletIter(t) == << t[1], t[2], t[3] >>

\* BitDepth constructors
Eight(v) == [kind |-> "Eight", v |-> v]
Sixteen(v) == [kind |-> "Sixteen", v |-> v]
TwentyFour(v) == [kind |-> "TwentyFour", v |-> v]
Empty == [kind |-> "Empty", v |-> << >>]

(***************************************************************************)
(* write                                                                   *)
(***************************************************************************)
ErrEmpty == "Empty audio data given"

\* EncodeSixteen emitting the high byte first
EncodeSixteen_swapped(v) ==
    flatten([k \in 1..Len(v) |->
        LET b == to_le_bytes16(v[k]) IN PairIter(<< b[2], b[1] >>)])

\* BitDepth::Sixteen arm
EncodeSixteen(v) ==
    flatten([k \in 1..Len(v) |->
        LET b == to_le_bytes16(v[k]) IN PairIter(<< b[1], b[2] >>)])

\* EncodeTwentyFour keeping the first three bytes (split_at(3).0)
EncodeTwentyFour_low3(v) ==
    flatten([k \in 1..Len(v) |->
        LET b == SubSeq(to_le_bytes32(v[k]), 1, 3)
        IN  TripletIter(<< b[1], b[2], b[3] >>)])

\* BitDepth::TwentyFour arm: split_at(1).1 is the bytes after the first
EncodeTwentyFour(v) ==
    flatten([k \in 1..Len(v) |->
        LET b == SubSeq(to_le_bytes32(v[k]), 2, 4)
        IN  TripletIter(<< b[1], b[2], b[3] >>)])

\* the match on track: << >> is the early return of the Err, << d_vec >> otherwise
d_vec(t) ==
    CASE t.kind = "Eight"      -> << t.v >>
      [] t.kind = "Sixteen"    -> << EncodeSixteen(t.v) >>
      [] t.kind = "TwentyFour" -> << EncodeTwentyFour(t.v) >>
      [] OTHER                 -> << >>

\* write handing the format chunk to the writer before the match on track
write_eager(h, t, w) ==
    LET h_vec == HeaderInto(h)
        h_dat == [id |-> "fmt ", data |-> SubSeq(h_vec, 1, 16)]
        d     == d_vec(t)
    IN  IF d = << >>
        THEN [res |-> ErrEmpty,
              writer |-> Append(w, [id |-> "RIFF", form |-> "WAVE", chunks |-> << h_dat >>])]
        ELSE LET d_dat == [id |-> "data", data |-> d[1]]
                 r     == [id |-> "RIFF", form |-> "WAVE", chunks |-> << h_dat, d_dat >>]
             IN  [res |-> "ok", writer |-> Append(w, r)]

\* write(header, track, writer): the result and the writer afterwards;
\* r.write(writer) appends the serialised container to the writer
write(h, t, w) ==
    LET h_vec == HeaderInto(h)
        h_dat == [id |-> "fmt ", data |-> SubSeq(h_vec, 1, 16)]
        d     == d_vec(t)
    IN  IF d = << >>
        THEN [res |-> ErrEmpty, writer |-> w]
        ELSE LET d_dat == [id |-> "data", data |-> d[1]]
                 r     == [id |-> "RIFF", form |-> "WAVE", chunks |-> << h_dat, d_dat >>]
             IN  [res |-> "ok", writer |-> Append(w, r)]

(***************************************************************************)
(* read                                                                    *)
(***************************************************************************)
ErrNotWave == "RIFF file type not \"WAVE\""
ErrHeader == "Slice is smaller than the minimum-required 16 bytes"
ErrNotPCM == "Unsupported data format, data is not in uncompressed PCM format, aborting"
ErrNoFmt == "RIFF data is missing the \"fmt \" chunk, aborting"
ErrBitDepth == "Unsupported bit depth"
ErrNoData == "Could not parse audio data"

\* one call on the riff collaborator (or on Header::try_from); at is the
\* index of the sub-chunk it touches, 0 for the outer chunk
Call(name, at) == [call |-> name, at |-> at]

Ok(v, l) == [err |-> "", val |-> << v >>, log |-> l]
Err(e, l) == [err |-> e, val |-> << >>, log |-> l]

\* verify_wav_file without the comparison of the form type
verify_wav_file_unchecked(c) ==
    Ok(c, << Call("Chunk::read", 0), Call("read_type", 0) >>)

\* verify_wav_file: Chunk::read at 0, read_type, the comparison with "WAVE"
verify_wav_file(c) ==
    LET l == << Call("Chunk::read", 0), Call("read_type", 0) >>
    IN  IF c.form # "WAVE" THEN Err(ErrNotWave, l) ELSE Ok(c, l)

\* read_header's loop without the check of audio_format
RECURSIVE read_header_loop_anyformat(_, _)
read_header_loop_anyformat(wav, i) ==
    IF i > Len(wav.chunks) THEN Err(ErrNoFmt, << >>)
    ELSE IF wav.chunks[i].id = "fmt "
    THEN LET parsed == HeaderTryFrom(wav.chunks[i].data)
             l == << Call("next", i), Call("read_contents", i), Call("Header::try_from", i) >>
         IN  IF parsed = << >> THEN Err(ErrHeader, l) ELSE Ok(parsed[1], l)
    ELSE LET rest == read_header_loop_anyformat(wav, i + 1)
         IN  [rest EXCEPT !.log = << Call("next", i) >> \o @]

\* the body of the for loop of read_header, from sub-chunk i on
RECURSIVE read_header_loop(_, _)
read_header_loop(wav, i) ==
    IF i > Len(wav.chunks) THEN Err(ErrNoFmt, << >>)
    ELSE IF wav.chunks[i].id = "fmt "
    THEN LET header_bytes == wav.chunks[i].data
             parsed == HeaderTryFrom(header_bytes)
             l == << Call("next", i), Call("read_contents", i), Call("Header::try_from", i) >>
         IN  IF parsed = << >> THEN Err(ErrHeader, l)
             ELSE IF parsed[1].audio_format # 1 THEN Err(ErrNotPCM, l)
             ELSE Ok(parsed[1], l)
    ELSE LET rest == read_header_loop(wav, i + 1)
         IN  [rest EXCEPT !.log = << Call("next", i) >> \o @]

read_header(c) ==
    LET wav == verify_wav_file(c)
    IN  IF wav.err # "" THEN Err(wav.err, wav.log)
        ELSE LET r == read_header_loop(wav.val[1], 1)
             IN  [r EXCEPT !.log = wav.log \o @]

\* DecodeSixteen through u16::from_le_bytes
DecodeSixteen_unsigned(data_bytes) ==
    LET g == chunks_exact(data_bytes, 2)
    IN  [k \in 1..Len(g) |-> u16_from_le_bytes(<< g[k][1], g[k][2] >>)]

\* the 16 arm of the match on bits_per_sample
DecodeSixteen(data_bytes) ==
    LET g == chunks_exact(data_bytes, 2)
    IN  [k \in 1..Len(g) |-> i16_from_le_bytes(<< g[k][1], g[k][2] >>)]

\* DecodeTwentyFour with the zero as the most-significant byte
DecodeTwentyFour_zeroTop(data_bytes) ==
    LET g == chunks_exact(data_bytes, 3)
    IN  [k \in 1..Len(g) |-> i32_from_le_bytes(<< g[k][1], g[k][2], g[k][3], 0 >>)]

\* the 24 arm of the match on bits_per_sample
DecodeTwentyFour(data_bytes) ==
    LET g == chunks_exact(data_bytes, 3)
    IN  [k \in 1..Len(g) |-> i32_from_le_bytes(<< 0, g[k][1], g[k][2], g[k][3] >>)]

\* DecodeData refusing a payload that is not a whole number of samples
DecodeData_strict(bits, data_bytes) ==
    CASE bits = 8  -> << Eight(data_bytes) >>
      [] bits = 16 /\ Len(data_bytes) % 2 = 0 -> << Sixteen(DecodeSixteen(data_bytes)) >>
      [] bits = 24 /\ Len(data_bytes) % 3 = 0 -> << TwentyFour(DecodeTwentyFour(data_bytes)) >>
      [] OTHER     -> << >>

\* DecodeData taking every other depth for raw bytes
DecodeData_fallback8(bits, data_bytes) ==
    CASE bits = 16 -> << Sixteen(DecodeSixteen(data_bytes)) >>
      [] bits = 24 -> << TwentyFour(DecodeTwentyFour(data_bytes)) >>
      [] OTHER     -> << Eight(data_bytes) >>

\* the match on header.bits_per_sample: << >> is the Err arm
DecodeData(bits, data_bytes) ==
    CASE bits = 8  -> << Eight(data_bytes) >>
      [] bits = 16 -> << Sixteen(DecodeSixteen(data_bytes)) >>
      [] bits = 24 -> << TwentyFour(DecodeTwentyFour(data_bytes)) >>
      [] OTHER     -> << >>

\* the body of the for loop of read_data, from sub-chunk i on
RECURSIVE read_data_loop(_, _, _)
read_data_loop(wav, h, i) ==
    IF i > Len(wav.chunks) THEN Err(ErrNoData, << >>)
    ELSE IF wav.chunks[i].id = "data"
    THEN LET data_bytes == wav.chunks[i].data
             d == DecodeData(h.bits_per_sample, data_bytes)
             l == << Call("next", i), Call("read_contents", i) >>
         IN  IF d = << >> THEN Err(ErrBitDepth, l) ELSE Ok(d[1], l)
    ELSE LET rest == read_data_loop(wav, h, i + 1)
         IN  [rest EXCEPT !.log = << Call("next", i) >> \o @]

\* read_data looking for the data chunk after the first sub-chunk only
read_data_after_first(c, h) ==
    LET wav == verify_wav_file(c)
    IN  IF wav.err # "" THEN Err(wav.err, wav.log)
        ELSE LET r == read_data_loop(wav.val[1], h, 2)
             IN  [r EXCEPT !.log = wav.log \o @]

read_data(c, h) ==
    LET wav == verify_wav_file(c)
    IN  IF wav.err # "" THEN Err(wav.err, wav.log)
        ELSE LET r == read_data_loop(wav.val[1], h, 1)
             IN  [r EXCEPT !.log = wav.log \o @]

\* read: the header, then the data with that header; ? returns the first Err.
\* val is << >> on Err and << <<header, data>> >> on Ok
read(c) ==
    LET h == read_header(c)
    IN  IF h.err # "" THEN Err(h.err, h.log)
        ELSE LET d == read_data(c, h.val[1])
             IN  IF d.err # "" THEN Err(d.err, h.log \o d.log)
                 ELSE Ok(<< h.val[1], d.val[1] >>, h.log \o d.log)

(***************************************************************************)
(* Inputs of the calls.                                                    *)
(***************************************************************************)
BoundedSeq(S, n) == UNION { [1..k -> S] : k \in 0..n }

ByteVals == {0, 1, 128, 255}
I16Vals == {-32768, -1, 0, 258, 32767}
I32Vals == {-2147483647 - 1, -256, -1, 0, 16777215, 2147483392}

Headers ==
    [ audio_format : {1, 2}, channel_count : {1, 2}, sampling_rate : {44100, 96000},
      bytes_per_second : {176400}, block_align : {4}, bits_per_sample : {8, 16, 24, 32} ]

Tracks ==
    {Empty} \cup { Eight(v) : v \in BoundedSeq(ByteVals, MaxSamples) }
            \cup { Sixteen(v) : v \in BoundedSeq(I16Vals, MaxSamples) }
            \cup { TwentyFour(v) : v \in BoundedSeq(I32Vals, MaxSamples) }

Container(form, chunks) == [id |-> "RIFF", form |-> form, chunks |-> chunks]
Chunk(id, data) == [id |-> id, data |-> data]

Hdr(fmt, bits) ==
    [ audio_format |-> fmt, channel_count |-> 2, sampling_rate |-> 44100,
      bytes_per_second |-> 176400, block_align |-> 4, bits_per_sample |-> bits ]

\* a writer is new, or already holds a container
PriorSinks ==
    { << >>, << Container("WAVE", << Chunk("fmt ", HeaderInto(Hdr(1, 8))), Chunk("data", << 7 >>) >>) >> }

\* one format chunk and one data chunk, every header with every payload
PayloadContainers ==
    { Container("WAVE", << Chunk("fmt ", HeaderInto(h)), Chunk("data", p) >>) :
        h \in Headers, p \in BoundedSeq(ByteVals, MaxLen) }

\* any form type over any sequence of a few chunks: format chunks that are
\* PCM, compressed, of an unsupported depth or too short, data chunks, others
SmallChunks ==
    { Chunk("fmt ", HeaderInto(Hdr(1, 16))), Chunk("fmt ", HeaderInto(Hdr(1, 24))),
      Chunk("fmt ", HeaderInto(Hdr(2, 16))), Chunk("fmt ", HeaderInto(Hdr(1, 32))),
      Chunk("fmt ", << 1, 0 >>),
      Chunk("data", << 1, 2, 3 >>), Chunk("data", << 255, 255 >>),
      Chunk("LIST", << 0 >>) }

MixedContainers ==
    { Container(f, cs) : f \in {"WAVE", "AVI "}, cs \in BoundedSeq(SmallChunks, MaxChunks) }

Containers == PayloadContainers \cup MixedContainers

(***************************************************************************)
(* The state machine: one action per call.  write and read keep no state   *)
(* between calls, so a call on a new writer or reader is taken from the    *)
(* initial state; ReadBack and Rewrite chain a call on the outcome of the  *)
(* call before.                                                            *)
(***************************************************************************)
NoHeader == Hdr(0, 0)
NoContainer == Container("", << >>)
NoResult == [err |-> "none", val |-> << >>]

Result(r) == [err |-> r.err, val |-> r.val]

Init ==
    /\ op = "init"
    /\ header = NoHeader
    /\ track = Empty
    /\ sinkBefore = << >>
    /\ sink = << >>
    /\ wres = "none"
    /\ source = NoContainer
    /\ rres = NoResult
    /\ log = << >>

\* wav::write(header, &track, &mut writer)
Write ==
    /\ op = "init"
    /\ \E h \in Headers, t \in Tracks, w \in PriorSinks :
        LET r == write(h, t, w)
        IN  /\ op' = "write"
            /\ header' = h
            /\ track' = t
            /\ sinkBefore' = w
            /\ sink' = r.writer
            /\ wres' = r.res
    /\ UNCHANGED <<source, rres, log>>

\* wav::read(&mut reader) on a reader over any container
Read ==
    /\ op = "init"
    /\ \E c \in Containers :
        LET r == read(c)
        IN  /\ op' = "read"
            /\ source' = c
            /\ rres' = Result(r)
            /\ log' = r.log
    /\ UNCHANGED <<header, track, sinkBefore, sink, wres>>

\* wav::read on a reader over the bytes the last write produced
ReadBack ==
    /\ op \in {"write", "rewrite"}
    /\ wres = "ok"
    /\ LET c == sink[Len(sinkBefore) + 1]
           r == read(c)
       IN  /\ op' = "readback"
           /\ source' = c
           /\ rres' = Result(r)
           /\ log' = r.log
    /\ UNCHANGED <<header, track, sinkBefore, sink, wres>>

\* wav::write of what the last read returned, to a new writer (the crate's
\* example: read a file, write the header and the data out again)
Rewrite ==
    /\ op \in {"read", "readback"}
    /\ rres.err = ""
    /\ LET h == rres.val[1][1]
           t == rres.val[1][2]
           r == write(h, t, << >>)
       IN  /\ op' = "rewrite"
           /\ header' = h
           /\ track' = t
           /\ sinkBefore' = << >>
           /\ sink' = r.writer
           /\ wres' = r.res
    /\ UNCHANGED <<source, rres, log>>

Next ==
    \/ Write
    \/ Read
    \/ ReadBack
    \/ Rewrite

Spec == Init /\ [][Next]_vars

(***************************************************************************)
(* Vocabulary of the properties, stated without the operators above.       *)
(***************************************************************************)
\* index of the first chunk of cs tagged tag, 0 when there is none
FirstIdx(cs, tag) ==
    IF \E i \in 1..Len(cs) : cs[i].id = tag
    THEN CHOOSE i \in 1..Len(cs) :
            cs[i].id = tag /\ \A j \in 1..(i - 1) : cs[j].id # tag
    ELSE 0

HasChunk(c, tag) == FirstIdx(c.chunks, tag) # 0
Payload(c, tag) == c.chunks[FirstIdx(c.chunks, tag)].data

\* the container the last write appended to its writer
Written == sink[Len(sink)]

Wrote == op \in {"write", "rewrite"}
DidRead == op \in {"read", "readback"}

Width(bits) == bits \div 8
Supported(bits) == bits \in {8, 16, 24}

Matches(h, t) ==
    \/ t.kind = "Eight" /\ h.bits_per_sample = 8
    \/ t.kind = "Sixteen" /\ h.bits_per_sample = 16
    \/ t.kind = "TwentyFour" /\ h.bits_per_sample = 24

SignedByte(b) == IF b >= 128 THEN b - 256 ELSE b

\* the sample the code builds from the k-th group of w bytes of payload P
GroupValue(P, w, k) ==
    CASE w = 1 -> P[k]
      [] w = 2 -> P[2 * k - 1] + 256 * SignedByte(P[2 * k])
      [] w = 3 -> 256 * P[3 * k - 2] + 65536 * P[3 * k - 1]
                    + 16777216 * SignedByte(P[3 * k])

\* the source holds a WAVE container whose first format chunk parses
ParsesFmt ==
    /\ source.form = "WAVE"
    /\ HasChunk(source, "fmt ")
    /\ Len(Payload(source, "fmt ")) >= 16

FmtField(lo) ==
    Payload(source, "fmt ")[lo] + 256 * Payload(source, "fmt ")[lo + 1]

DeclaredFormat == FmtField(1)
DeclaredBits == FmtField(15)

ReadOk == rres.err = ""
ReadHeader == rres.val[1][1]
ReadData == rres.val[1][2]

(***************************************************************************)
(* C1                                                                      *)
(***************************************************************************)
RoundTripCase ==
    /\ header.audio_format = 1
    /\ Supported(header.bits_per_sample)
    /\ Matches(header, track)

LowByteZero(t) ==
    t.kind = "TwentyFour" => \A k \in 1..Len(t.v) : t.v[k] % 256 = 0

Read24 == DidRead /\ ReadOk /\ ReadHeader.bits_per_sample = 24

DecodableCase ==
    /\ ParsesFmt
    /\ DeclaredFormat = 1
    /\ Supported(DeclaredBits)
    /\ HasChunk(source, "data")

\* C4: with a PCM format chunk of width w and a data chunk of any length L,
\* read does not fail; it returns floor(L / w) samples, the k-th built from
\* the k-th group of w payload bytes, and the trailing L mod w bytes are
\* dropped.
C4_TruncatesPartialGroup ==
    (DidRead /\ DecodableCase) =>
        /\ ReadOk
        /\ Len(ReadData.v) = Len(Payload(source, "data")) \div Width(DeclaredBits)
        /\ \A k \in 1..Len(ReadData.v) :
            ReadData.v[k] = GroupValue(Payload(source, "data"), Width(DeclaredBits), k)

C4_Witness ==
    /\ op = "read"
    /\ DecodableCase
    /\ DeclaredBits = 16
    /\ Payload(source, "data") = << 255, 255, 128 >>
    /\ ReadOk
    /\ ReadData = Sixteen(<< -1 >>)

(***************************************************************************)
(* C5                                                                      *)
(***************************************************************************)
\* C5: write of BitDepth::Empty returns the error, whatever the Header, and
\* the writer holds what it held before the call.
C5_EmptyWritesNothing ==
    (op = "write" /\ track.kind = "Empty") =>
        /\ wres = ErrEmpty
        /\ sink = sinkBefore

C5_Witness ==
    /\ op = "write"
    /\ track = Empty
    /\ header.audio_format = 1
    /\ sinkBefore # << >>
    /\ wres = ErrEmpty

(***************************************************************************)
(* C6                                                                      *)
(***************************************************************************)
\* C6: when the form type is not "WAVE", read fails with the not-a-WAVE
\* error having made no call that iterates the sub-chunks, reads a chunk's
\* contents or parses a header: only the outer chunk and its type are read.
C6_NotWaveBeforeChunks ==
    (DidRead /\ source.form # "WAVE") =>
        /\ rres = [err |-> ErrNotWave, val |-> << >>]
        /\ log = << Call("Chunk::read", 0), Call("read_type", 0) >>

C6_Witness ==
    /\ op = "read"
    /\ source.form = "AVI "
    /\ HasChunk(source, "fmt ")
    /\ HasChunk(source, "data")
    /\ Payload(source, "fmt ") = HeaderInto(Hdr(1, 16))
    /\ rres.err = ErrNotWave

(***************************************************************************)
(* C7                                                                      *)
(***************************************************************************)
Calls(name) == { i \in 1..Len(log) : log[i].call = name }

\* C7: when the first format chunk parses to a Header whose audio_format is
\* not 1, read fails with the unsupported-format error and the data lookup
\* never starts: the container is opened once, the only contents read are
\* the format chunk's, and the last call is the parse of the header.
C7_NotPcmStops ==
    (DidRead /\ ParsesFmt /\ DeclaredFormat # 1) =>
        /\ rres = [err |-> ErrNotPCM, val |-> << >>]
        /\ Cardinality(Calls("Chunk::read")) = 1
        /\ \A i \in Calls("read_contents") : log[i].at = FirstIdx(source.chunks, "fmt ")
        /\ log[Len(log)] = Call("Header::try_from", FirstIdx(source.chunks, "fmt "))

C7_Witness ==
    /\ op = "read"
    /\ ParsesFmt
    /\ DeclaredFormat = 2
    /\ DeclaredBits = 16
    /\ HasChunk(source, "data")
    /\ FirstIdx(source.chunks, "data") < FirstIdx(source.chunks, "fmt ")
    /\ rres.err = ErrNotPCM

(***************************************************************************)
(* C8                                                                      *)
(***************************************************************************)
\* C8 as stated: a WAVE container whose format chunk is PCM and declares a
\* depth other than 8, 16 or 24 makes read fail with "Unsupported bit depth".
C8_UnsupportedDepthAlways ==
    (DidRead /\ ParsesFmt /\ DeclaredFormat = 1 /\ ~Supported(DeclaredBits)) =>
        rres = [err |-> ErrBitDepth, val |-> << >>]

\* C8 amended: a WAVE container whose format chunk is PCM and declares a
\* depth other than 8, 16 or 24, and that holds a "data" chunk, makes read
\* fail with "Unsupported bit depth" and return no Header and no BitDepth.
C8_UnsupportedDepth ==
    (DidRead /\ ParsesFmt /\ DeclaredFormat = 1 /\ ~Supported(DeclaredBits)
        /\ HasChunk(source, "data")) =>
        rres = [err |-> ErrBitDepth, val |-> << >>]

C8_Witness ==
    /\ op = "read"
    /\ ParsesFmt
    /\ DeclaredFormat = 1
    /\ DeclaredBits = 32
    /\ HasChunk(source, "data")
    /\ Len(Payload(source, "data")) = 3
    /\ rres.err = ErrBitDepth

(***************************************************************************)
(* C9                                                                      *)
(***************************************************************************)
\* the indices of the chunks whose contents were read, in call order
RECURSIVE ContentsRead(_)
ContentsRead(l) ==
    IF l = << >> THEN << >>
    ELSE (IF Head(l).call = "read_contents" THEN << Head(l).at >> ELSE << >>)
            \o ContentsRead(Tail(l))

\* C9: the Header comes from the first "fmt " chunk and the samples from
\* the first "data" chunk, wherever it lies relative to the "fmt " chunk:
\* each lookup scans from the first sub-chunk, and no other chunk's
\* contents are read.
C9_FirstMatchWins ==
    (DidRead /\ source.form = "WAVE") =>
        LET f == FirstIdx(source.chunks, "fmt ")
            d == FirstIdx(source.chunks, "data")
        IN  /\ f = 0 => rres.err = ErrNoFmt
            /\ ReadOk =>
                /\ f # 0 /\ d # 0
                /\ << ReadHeader >> = HeaderTryFrom(source.chunks[f].data)
                /\ Len(ReadData.v) =
                        Len(source.chunks[d].data) \div Width(ReadHeader.bits_per_sample)
                /\ \A k \in 1..Len(ReadData.v) :
                        ReadData.v[k] = GroupValue(source.chunks[d].data,
                                                   Width(ReadHeader.bits_per_sample), k)
                /\ ContentsRead(log) = << f, d >>
            /\ (DecodableCase) => ReadOk
            /\ \A i \in Calls("read_type") :
                    (i < Len(log)) => log[i + 1] = Call("next", 1)

C9_Witness ==
    /\ op = "read"
    /\ Len(source.chunks) >= 4
    /\ source.chunks[1].id = "data"
    /\ source.chunks[2].id = "fmt "
    /\ source.chunks[3].id = "fmt "
    /\ source.chunks[4].id = "data"
    /\ source.chunks[1].data # source.chunks[4].data
    /\ source.chunks[2].data # source.chunks[3].data
    /\ ReadOk
    /\ ContentsRead(log) = << 2, 1 >>

(***************************************************************************)
(* C10                                                                     *)
(***************************************************************************)
\* C10: for a depth of 8, 16 or 24 and a data payload P whose length is a
\* multiple of the sample width, writing what read decoded from P yields a
\* data payload equal to P byte for byte.
C10_DecodeEncodeIdentity ==
    (op = "rewrite" /\ DecodableCase
        /\ Len(Payload(source, "data")) % Width(DeclaredBits) = 0) =>
        /\ wres = "ok"
        /\ Payload(Written, "data") = Payload(source, "data")

C10_Witness ==
    /\ op = "rewrite"
    /\ DecodableCase
    /\ DeclaredBits = 24
    /\ Payload(source, "data") = << 1, 128, 255 >>
    /\ wres = "ok"
    /\ track = TwentyFour(<< -8388352 >>)

====
